---------------------------- MODULE Spec2Model ----------------------------
(***************************************************************************)
(* The agent control loop of 2025-10-21-agentic-rag-context-engineering:   *)
(* AgentRuntime (agent_runtime.py) driven by the TUI host (tui.py).        *)
(*                                                                         *)
(* A text is a sequence of tokens, so that str.startswith and the          *)
(* f-strings of the source are computed, not assumed: "Tool: Read\n..."    *)
(* is <<"Tool:", "Read", ...>>, the empty string is <<>>.                  *)
(*                                                                         *)
(* The runtime is one asyncio coroutine.  The host's key handlers run on   *)
(* the same event loop, hence only while the coroutine is suspended at an  *)
(* await that yields: the oracle call and the TUI callbacks (each sleeps). *)
(* The pc values that are such awaits are listed in SuspensionPoints.      *)
(***************************************************************************)
EXTENDS Integers, Sequences, FiniteSets, TLC

VARIABLES
    \* AgentState (agent_runtime.py:16-23)
    messages, interrupt_requested, current_iteration, current_depth,
    \* BAMMYApp (tui.py): initial_call is the call of process_command that
    \* on_mount schedules for the initial query
    is_processing, initial_call,
    \* run_loop / run_iteration locals of the top-level coroutine
    pc, user_message, max_iterations, depth, loop_i, temp_messages, retry, response,
    tool_result, result,
    \* execute_sub_agent activations, innermost last
    subs,
    \* history variables (not program state): status is the outcome the last
    \* return of run_loop stands for; outcomes lists how the oracle calls of the
    \* retry loop in progress (or of the one that ended the run) came out;
    \* dispatched lists the execute_tool calls completed in this run; events
    \* lists the AgentCallbacks the runtime has awaited in this run, in order
    status, runs, budget, run_start, outcomes, dispatched, only_tools, events

vars == <<messages, interrupt_requested, current_iteration, current_depth,
          is_processing, initial_call, pc, user_message, max_iterations, depth, loop_i,
          temp_messages, retry, response, tool_result, result, subs,
          status, runs, budget, run_start, outcomes, dispatched, only_tools, events>>

state_vars == <<messages, interrupt_requested, current_iteration, current_depth>>
run_hist_vars == <<status, runs, budget, run_start, outcomes, dispatched, only_tools>>
hist_vars == <<run_hist_vars, events>>

\* (variant: every callback is given depth 0)
EventAtDepthZero(name, d, kind) == [name |-> name, depth |-> 0, kind |-> kind]

\* one awaited callback of AgentCallbacks, with the depth it was given and,
\* for on_tool_start, the action of the tool
Event(name, d, kind) == [name |-> name, depth |-> d, kind |-> kind]

-----------------------------------------------------------------------------
(* Bounds of the model *)

\* commands the host submits in one behaviour
MaxRuns == 2
\* the max_iterations handed to run_loop (tui.py:427 and main.py:721 pass 999)
\* add up to at most this much over the commands of one behaviour
MaxIterations == 2
\* stands for the range(50) of execute_sub_agent (agent_runtime.py:67)
SubAgentIterations == 2
\* deepest execute_sub_agent activation the model follows
MaxDepth == 2

\* (variant: one attempt too many)
max_retries_plus_one == 3 + 1

\* agent_runtime.py:164 and :78
max_retries == 3

-----------------------------------------------------------------------------
(* Texts *)

StartsWith(text, token) == Len(text) > 0 /\ text[1] = token

IntToStr(n) == <<"0", "1", "2", "3", "4", "5">>[n + 1]

\* the plain-text test of the two retry loops: raw_output starts with none of
\* the three markers
\* (JsonFence is the token for three backquotes followed by json, which a TLA+
\* string cannot hold)
JsonFence == "'''json"

\* (variant: the plain-text fallback never applies)
IsPlainTextNever(raw) == FALSE

IsPlainText(raw) ==
    /\ ~StartsWith(raw, JsonFence)
    /\ ~StartsWith(raw, "{")
    /\ ~StartsWith(raw, "[")

InterruptedText == <<"Agent execution interrupted by user">>
RetryFailedText == <<"Agent failed to return valid response after ", IntToStr(max_retries), " attempts">>
OracleErrorText(e) == <<"Error calling agent: ">> \o e
MaxIterationsText == <<"Agent reached maximum iterations without completing the task">>
AgentCompletedText == <<"Agent completed">>

SubInterruptedText == <<"Sub-agent interrupted by user">>
SubRetryFailedText == <<"Sub-agent failed to return valid response after ", IntToStr(max_retries), " attempts">>
SubErrorText(e) == <<"Sub-agent error: ">> \o e
SubMaxIterationsText == <<"Sub-agent reached max iterations">>
\* (variant: the summary leaves the task out)
SubCompletedTextNoTask(tool, reply) == <<"Sub-agent completed:\nResult: ">> \o reply

SubCompletedText(tool, reply) ==
    <<"Sub-agent completed:\nTask: ">> \o tool.description \o <<"\nResult: ">> \o reply

\* types.Message; src is a history field: TopLevel for an entry of
\* self.state.messages, the id of the activation for an entry made inside
\* execute_sub_agent
TopLevel == <<0, 0, 0>>

Message(role, text, src) == [role |-> role, message |-> text, src |-> src]

RepairMessage(raw, src) ==
    Message("assistant",
            <<"Returned an invalid response: ">> \o raw \o <<".\n Must be one of the types specified.">>,
            src)

IsRepair(m) == StartsWith(m.message, "Returned an invalid response: ")

\* tool_call_str of run_iteration and execute_sub_agent
ToolCallStr(tool) ==
    IF tool.action = "Agent"
    THEN <<"Tool:", "Agent", "\n">> \o <<"  description: ">> \o tool.description
              \o <<"\n", "  prompt: ">> \o tool.prompt \o <<"\n">>
    ELSE <<"Tool:", tool.action, "\n">> \o <<"  file_path: ">> \o tool.file_path \o <<"\n">>

-----------------------------------------------------------------------------
(* The collaborators *)

ReadTool == [action |-> "Read", file_path |-> <<"a.py">>]
\* an action object whose kind main.execute_tool has no case for
UnknownTool == [action |-> "Teleport", file_path |-> <<"a.py">>]
AgentTool == [action |-> "Agent", description |-> <<"survey">>, prompt |-> <<"list the files">>]

ReplyToUser(text) == [action |-> "reply_to_user", message |-> text]
IsReply(r) == r.action = "reply_to_user"
NoResponse == [action |-> "none"]

ReplyTexts == {<<"done">>, <<>>, <<"Tool:", "Read">>}
RawOutputs ==
    {<<"{", "action: Agent">>, <<JsonFence, "[]">>, <<"sorry">>, <<>>, <<"Tool:", "Read">>}
FaultTexts == {<<"connection reset">>}

\* What one awaited oracle call can do: return a parsed value, raise
\* BamlValidationError(raw_output), or raise another exception.
Returned(v) == [kind |-> "returned", value |-> v]
Malformed(raw) == [kind |-> "malformed", raw_output |-> raw]
Fault(e) == [kind |-> "fault", text |-> e]

OracleFailures == {Malformed(raw) : raw \in RawOutputs} \cup {Fault(e) : e \in FaultTexts}

\* b.AgentLoop: AgentTools (AgentTool included) or ReplyToUser
AgentLoop ==
    {Returned(ReplyToUser(t)) : t \in ReplyTexts}
        \cup {Returned(ReadTool), Returned(AgentTool), Returned(UnknownTool)}
        \cup OracleFailures

\* b.SubAgentLoop: SubAgentTools (no AgentTool) or ReplyToUser; an output that
\* names the Agent action does not parse and is a BamlValidationError
SubAgentLoop ==
    {Returned(ReplyToUser(t)) : t \in ReplyTexts}
        \cup {Returned(ReadTool)} \cup OracleFailures

\* the cases of the match statement of main.execute_tool
KnownKinds ==
    {"Bash", "Glob", "Grep", "LS", "Read", "Edit", "MultiEdit", "Write", "NotebookRead",
     "NotebookEdit", "WebFetch", "TodoRead", "TodoWrite", "WebSearch", "ExitPlanMode",
     "Agent"}

\* (variant: the default case raises instead of returning a text, and the
\* handler around it reports the file as missing)
ExecuteToolResultsNoDefault(tool) == {<<"File not found: ">> \o tool.file_path}

\* main.execute_tool for the kinds it runs itself returns a text (here the
\* one execute_read returns for a missing file); `case other` returns a text too
ExecuteToolResults(tool) ==
    IF tool.action = "Agent"
    THEN \* main.execute_agent: a separate agent_loop run, summarised
         {SubCompletedText(tool, r) : r \in {AgentCompletedText, MaxIterationsText}}
            \cup {SubErrorText(e) : e \in FaultTexts}
    ELSE IF tool.action \in KnownKinds
    THEN {<<"File not found: ">> \o tool.file_path}
    ELSE {<<"Unknown tool type: ", tool.action>>}

-----------------------------------------------------------------------------
(* Initial state: BAMMYApp.__init__ with a fresh AgentState, nothing running *)

NoFrame == <<>>

\* BAMMYApp.__init__: a fresh AgentState, nothing being processed
Constructed ==
    /\ messages = <<>>
    /\ interrupt_requested = FALSE
    /\ current_iteration = 0
    /\ current_depth = 0
    /\ is_processing = FALSE
    /\ pc = "idle"
    /\ user_message = <<>>
    /\ max_iterations = 0
    /\ depth = 0
    /\ loop_i = 0
    /\ temp_messages = <<>>
    /\ retry = 0
    /\ response = NoResponse
    /\ tool_result = <<>>
    /\ result = <<>>
    /\ subs = NoFrame
    /\ status = "NONE"
    /\ runs = 0
    /\ events = <<>>
    /\ budget = MaxIterations
    /\ run_start = 0
    /\ outcomes = <<>>
    /\ dispatched = <<>>
    /\ only_tools = TRUE

\* run_tui() without an initial query: on_mount schedules nothing
Init == Constructed /\ initial_call = "none"

\* run_tui(initial_query = ...): on_mount has scheduled
\* process_command(initial_query) with call_later
MountInit == Constructed /\ initial_call = "scheduled"

\* awaits of run_iteration at which the event loop can run a host handler
SuspensionPoints == {"on_iteration", "oracle", "on_tool_start", "on_tool_result"}
\* the same for execute_sub_agent
SubSuspensionPoints ==
    {"on_sub_agent_start", "on_iteration", "oracle", "on_tool_start", "on_tool_result"}

Top == subs[Len(subs)]

Suspended ==
    IF subs = NoFrame THEN pc \in SuspensionPoints ELSE Top.pc \in SubSuspensionPoints

\* execute_tool calls of the top-level loop begun so far in this run
DispatchesBegun ==
    Len(dispatched) + (IF pc = "sub" THEN 1 ELSE 0)

-----------------------------------------------------------------------------
(* The host: tui.py *)

Queries == {<<"list the files">>, <<>>}

\* (variant: process_command leaves the counter as the last run left it)
IterationAtStartKept(n) == n

\* self.agent_state.current_iteration = 0 of process_command
IterationAtStart(n) == 0

\* process_command up to its call of run_loop
ProcessCommand(query, cap) ==
    /\ is_processing' = TRUE
    /\ interrupt_requested' = FALSE
    /\ current_iteration' = IterationAtStart(current_iteration)
    /\ user_message' = query
    /\ max_iterations' = cap
    /\ depth' = 0
    /\ pc' = "run_loop"
    /\ status' = "RUNNING"
    /\ runs' = runs + 1
    /\ events' = <<>>
    /\ budget' = budget - cap
    /\ run_start' = Len(messages)
    /\ outcomes' = <<>>
    /\ dispatched' = <<>>
    /\ only_tools' = TRUE
    /\ result' = <<>>
    /\ UNCHANGED <<messages, current_depth, loop_i, temp_messages, retry, response,
                   tool_result, subs>>

\* on_input_submitted: a command is refused while one is being processed
OnInputSubmitted ==
    /\ pc = "idle" \/ Suspended
    /\ runs < MaxRuns
    /\ IF is_processing
       THEN UNCHANGED vars
       ELSE /\ \E query \in Queries, cap \in 0..budget : ProcessCommand(query, cap)
            /\ UNCHANGED initial_call

\* (variant: the reset does not look at is_processing)
ActionResetConversationUnguarded ==
    /\ pc = "idle" \/ Suspended
    /\ IF FALSE
       THEN UNCHANGED vars
       ELSE /\ messages' = <<>>
            /\ current_iteration' = 0
            /\ UNCHANGED <<interrupt_requested, current_depth, is_processing, initial_call, pc,
                           user_message, max_iterations, depth, loop_i, temp_messages, retry,
                           response, tool_result, result, subs>>
            /\ UNCHANGED hist_vars

InitialQuery == <<"list the files">>

\* The call of process_command that on_mount scheduled is run by the event
\* loop.  process_command does not look at is_processing.  When no command is
\* being processed this is an ordinary command.  When one is, suspended at an
\* await, the new coroutine runs up to its own first await: process_command
\* to its call of run_loop, run_loop's append of the user message, and
\* run_iteration up to the on_iteration callback (the cap is 999 and the flag
\* has just been cleared).  The model follows the second coroutine no further.
OnMountCallback ==
    /\ initial_call = "scheduled"
    /\ pc = "idle" \/ Suspended
    /\ IF pc = "idle"
       THEN /\ runs < MaxRuns
            /\ \E cap \in 0..budget : ProcessCommand(InitialQuery, cap)
            /\ initial_call' = "none"
       ELSE /\ is_processing' = TRUE
            /\ interrupt_requested' = FALSE
            /\ messages' = Append(messages, Message("user", InitialQuery, TopLevel))
            /\ current_iteration' = IterationAtStart(current_iteration) + 1
            /\ current_depth' = 0
            /\ initial_call' = "suspended"
            /\ UNCHANGED <<pc, user_message, max_iterations, depth, loop_i, temp_messages, retry,
                           response, tool_result, result, subs>>
            /\ UNCHANGED hist_vars

\* action_reset_conversation (Ctrl+R)
ActionResetConversation ==
    /\ pc = "idle" \/ Suspended
    /\ IF is_processing
       THEN UNCHANGED vars
       ELSE /\ messages' = <<>>
            /\ current_iteration' = 0
            /\ UNCHANGED <<interrupt_requested, current_depth, is_processing, initial_call, pc,
                           user_message, max_iterations, depth, loop_i, temp_messages, retry,
                           response, tool_result, result, subs>>
            /\ UNCHANGED hist_vars

\* action_interrupt_agent (Ctrl+X)
ActionInterruptAgent ==
    /\ pc = "idle" \/ Suspended
    /\ IF ~is_processing
       THEN UNCHANGED vars
       ELSE /\ interrupt_requested' = TRUE
            /\ UNCHANGED <<messages, current_iteration, current_depth, is_processing, initial_call, pc,
                           user_message, max_iterations, depth, loop_i, temp_messages, retry,
                           response, tool_result, result, subs>>
            /\ UNCHANGED hist_vars

\* (variant: the finally clause clears is_processing only)
FinishKeepsFlag ==
    /\ pc = "done"
    /\ is_processing' = FALSE
    /\ interrupt_requested' = interrupt_requested
    /\ pc' = "idle"
    /\ user_message' = <<>> /\ max_iterations' = 0 /\ depth' = 0 /\ loop_i' = 0
    /\ result' = <<>>
    /\ outcomes' = <<>> /\ dispatched' = <<>> /\ only_tools' = TRUE
    /\ run_start' = 0 /\ events' = <<>>
    /\ UNCHANGED <<messages, current_iteration, current_depth, temp_messages, retry,
                   response, tool_result, subs, status, runs, budget, initial_call>>

\* process_command after run_loop has returned, through its finally clause
\* (the locals of process_command and run_loop end with the call, and the
\* history of the run with them, but for the outcome of the call)
Finish ==
    /\ pc = "done"
    /\ is_processing' = FALSE
    /\ interrupt_requested' = FALSE
    /\ pc' = "idle"
    /\ user_message' = <<>> /\ max_iterations' = 0 /\ depth' = 0 /\ loop_i' = 0
    /\ result' = <<>>
    /\ outcomes' = <<>> /\ dispatched' = <<>> /\ only_tools' = TRUE
    /\ run_start' = 0 /\ events' = <<>>
    /\ UNCHANGED <<messages, current_iteration, current_depth, temp_messages, retry,
                   response, tool_result, subs, status, runs, budget, initial_call>>

-----------------------------------------------------------------------------
(* AgentRuntime.run_loop and run_iteration, the top-level loop *)

IsToolCall(out) == out.kind = "returned" /\ ~IsReply(out.value)

\* One more b.AgentLoop call has ended, with out
OracleCalled(out) ==
    /\ outcomes' = Append(outcomes, out)
    /\ only_tools' = (only_tools /\ IsToolCall(out))

\* (variant: every reply is rejected)
LooksLikeToolCallAlways(message) == TRUE

\* (variant: every reply is accepted)
LooksLikeToolCallNever(message) == FALSE

\* response.message.startswith("Tool:")
LooksLikeToolCall(message) == StartsWith(message, "Tool:")

\* (variant: run_iteration has no check at its top)
InterruptAtLoopTopSkipped == FALSE

\* the three reads of self.state.interrupt_requested in run_iteration
InterruptAtLoopTop == interrupt_requested
\* (variant: the checkpoint after the retry loop is missing)
InterruptAfterRetrySkipped == FALSE

\* (variant: the checkpoint after the retry loop applies to tool calls only)
InterruptAfterRetryToolsOnly == interrupt_requested /\ ~IsReply(response)

InterruptAfterRetry == interrupt_requested

\* (variant: range(max_iterations + 1))
LoopHasNextOffByOne == loop_i <= max_iterations

\* for _ in range(max_iterations)
LoopHasNext == loop_i < max_iterations

\* (variant: `return result`)
RunLoopReturnVerbatim(text, outcome) ==
    /\ pc' = "done"
    /\ result' = text
    /\ status' = outcome
    /\ temp_messages' = <<>>
    /\ retry' = 0
    /\ response' = NoResponse
    /\ tool_result' = <<>>

\* `return result or "Agent completed"` of run_loop, with the outcome it stands for
\* (the locals of run_iteration end with the call)
RunLoopReturn(text, outcome) ==
    /\ pc' = "done"
    /\ result' = IF text = <<>> THEN AgentCompletedText ELSE text
    /\ status' = outcome
    /\ temp_messages' = <<>>
    /\ retry' = 0
    /\ response' = NoResponse
    /\ tool_result' = <<>>

\* (variant: run_loop appends the user message at every depth)
AppendsUserMessageAlways(d) == TRUE

\* if depth == 0, in run_loop
AppendsUserMessage(d) == d = 0

RunLoopStart ==
    /\ pc = "run_loop"
    /\ messages' = IF AppendsUserMessage(depth)
                   THEN Append(messages, Message("user", user_message, TopLevel))
                   ELSE messages
    /\ loop_i' = 0
    /\ pc' = "loop"
    /\ UNCHANGED <<interrupt_requested, current_iteration, current_depth, is_processing, initial_call,
                   user_message, max_iterations, depth, temp_messages, retry, response,
                   tool_result, result, subs>>
    /\ UNCHANGED hist_vars

\* the for loop of run_loop has run max_iterations times
RunLoopExhausted ==
    /\ pc = "loop"
    /\ ~LoopHasNext
    /\ RunLoopReturn(MaxIterationsText, "MAX_ITER")
    /\ UNCHANGED <<messages, interrupt_requested, current_iteration, current_depth,
                   is_processing, initial_call, user_message, max_iterations, depth, loop_i, subs>>
    /\ UNCHANGED <<runs, budget, events, run_start, outcomes, dispatched, only_tools>>

\* run_iteration finds the interrupt flag set at its top
IterationInterrupted ==
    /\ pc = "loop"
    /\ LoopHasNext
    /\ current_iteration' = current_iteration + 1
    /\ current_depth' = depth
    /\ InterruptAtLoopTop
    /\ RunLoopReturn(InterruptedText, "INTERRUPTED")
    /\ UNCHANGED <<messages, interrupt_requested, is_processing, initial_call, user_message,
                   max_iterations, depth, loop_i, subs>>
    /\ UNCHANGED <<runs, budget, events, run_start, outcomes, dispatched, only_tools>>

\* run_iteration passes its first checkpoint and awaits the on_iteration and
\* on_status_update callbacks
IterationStart ==
    /\ pc = "loop"
    /\ LoopHasNext
    /\ current_iteration' = current_iteration + 1
    /\ current_depth' = depth
    /\ ~InterruptAtLoopTop
    /\ pc' = "on_iteration"
    /\ events' = Append(events, Event("on_iteration", depth, "-"))
    /\ outcomes' = <<>>
    /\ UNCHANGED <<messages, interrupt_requested, is_processing, initial_call, user_message,
                   max_iterations, depth, loop_i, temp_messages, retry, response, tool_result,
                   result, subs>>
    /\ UNCHANGED <<status, runs, budget, run_start, dispatched, only_tools>>

\* (variant: the attempts are counted over the run, one used by each earlier
\* iteration)
CallOracleBudgetPerRun ==
    /\ pc = "on_iteration"
    /\ subs = NoFrame
    /\ temp_messages' = messages
    /\ retry' = loop_i
    /\ response' = NoResponse
    /\ pc' = "oracle"
    /\ UNCHANGED <<messages, interrupt_requested, current_iteration, current_depth,
                   is_processing, initial_call, user_message, max_iterations, depth, loop_i, tool_result,
                   result, subs>>
    /\ UNCHANGED hist_vars

\* temp_messages = self.state.messages.copy(), then the first b.AgentLoop call
CallOracle ==
    /\ pc = "on_iteration"
    /\ subs = NoFrame
    /\ temp_messages' = messages
    /\ retry' = 0
    /\ response' = NoResponse
    /\ pc' = "oracle"
    /\ UNCHANGED <<messages, interrupt_requested, current_iteration, current_depth,
                   is_processing, initial_call, user_message, max_iterations, depth, loop_i, tool_result,
                   result, subs>>
    /\ UNCHANGED hist_vars

\* (variant: temp_messages is self.state.messages itself, not a copy)
AppendRepairToDurable(durable, temp, raw) ==
    [durable |-> Append(durable, RepairMessage(raw, TopLevel)),
     temp |-> Append(temp, RepairMessage(raw, TopLevel))]

\* temp_messages.append(repair): the scratch copy grows, self.state.messages does not
AppendRepair(durable, temp, raw) ==
    [durable |-> durable, temp |-> Append(temp, RepairMessage(raw, TopLevel))]

\* The branch of the retry loop that rejects an output: append the repair
\* message, give up on the last attempt, otherwise go round the for loop
\* (value is what the call left in response)
RejectOutput(raw, value) ==
    LET r == AppendRepair(messages, temp_messages, raw)
    IN  /\ messages' = r.durable
        /\ IF retry = max_retries - 1
           THEN RunLoopReturn(RetryFailedText, "ERROR")
           ELSE /\ temp_messages' = r.temp
                /\ response' = value
                /\ retry' = retry + 1
                /\ pc' = IF retry + 1 < max_retries THEN "oracle" ELSE "after_retry"
                /\ UNCHANGED <<tool_result, result, status>>

\* b.AgentLoop returns a ReplyToUser that does not start with "Tool:", or a tool
OracleAccepted ==
    /\ pc = "oracle" /\ subs = NoFrame
    /\ \E out \in AgentLoop :
        /\ out.kind = "returned"
        /\ ~(IsReply(out.value) /\ LooksLikeToolCall(out.value.message))
        /\ response' = out.value
        /\ OracleCalled(out)
    /\ pc' = "after_retry"
    /\ UNCHANGED <<messages, interrupt_requested, current_iteration, current_depth,
                   is_processing, initial_call, user_message, max_iterations, depth, loop_i, temp_messages,
                   retry, tool_result, result, subs>>
    /\ UNCHANGED <<status, runs, budget, events, run_start, dispatched>>

\* b.AgentLoop returns a ReplyToUser whose message starts with "Tool:"
OracleInvalidReply ==
    /\ pc = "oracle" /\ subs = NoFrame
    /\ \E out \in AgentLoop :
        /\ out.kind = "returned"
        /\ IsReply(out.value) /\ LooksLikeToolCall(out.value.message)
        /\ OracleCalled(out)
        /\ RejectOutput(out.value.message, out.value)
    /\ UNCHANGED <<interrupt_requested, current_iteration, current_depth, is_processing, initial_call,
                   user_message, max_iterations, depth, loop_i, subs>>
    /\ UNCHANGED <<runs, budget, events, run_start, dispatched>>

\* BamlValidationError whose raw_output is plain text: taken as the reply
OracleProse ==
    /\ pc = "oracle" /\ subs = NoFrame
    /\ \E out \in AgentLoop :
        /\ out.kind = "malformed"
        /\ IsPlainText(out.raw_output)
        /\ response' = ReplyToUser(out.raw_output)
        /\ OracleCalled(out)
    /\ pc' = "after_retry"
    /\ UNCHANGED <<messages, interrupt_requested, current_iteration, current_depth,
                   is_processing, initial_call, user_message, max_iterations, depth, loop_i, temp_messages,
                   retry, tool_result, result, subs>>
    /\ UNCHANGED <<status, runs, budget, events, run_start, dispatched>>

\* BamlValidationError whose raw_output looks structured: repair and retry
OracleStructured ==
    /\ pc = "oracle" /\ subs = NoFrame
    /\ \E out \in AgentLoop :
        /\ out.kind = "malformed"
        /\ ~IsPlainText(out.raw_output)
        /\ OracleCalled(out)
        /\ RejectOutput(out.raw_output, response)
    /\ UNCHANGED <<interrupt_requested, current_iteration, current_depth, is_processing, initial_call,
                   user_message, max_iterations, depth, loop_i, subs>>
    /\ UNCHANGED <<runs, budget, events, run_start, dispatched>>

\* (variant: a fault is retried like an invalid output)
OracleFaultRetried ==
    /\ pc = "oracle" /\ subs = NoFrame
    /\ \E out \in AgentLoop :
        /\ out.kind = "fault"
        /\ OracleCalled(out)
        /\ RejectOutput(out.text, response)
    /\ UNCHANGED <<interrupt_requested, current_iteration, current_depth, is_processing, initial_call,
                   user_message, max_iterations, depth, loop_i, subs>>
    /\ UNCHANGED <<runs, budget, events, run_start, dispatched>>

\* (variant: no except clause catches the exception, which leaves run_loop)
OracleFaultEscapes ==
    /\ pc = "oracle" /\ subs = NoFrame
    /\ \E out \in AgentLoop :
        /\ out.kind = "fault"
        /\ OracleCalled(out)
    /\ pc' = "raised"
    /\ UNCHANGED <<messages, interrupt_requested, current_iteration, current_depth,
                   is_processing, initial_call, user_message, max_iterations, depth, loop_i, temp_messages,
                   retry, response, tool_result, result, subs>>
    /\ UNCHANGED <<status, runs, budget, events, run_start, dispatched>>

\* any other exception of the oracle call
OracleFault ==
    /\ pc = "oracle" /\ subs = NoFrame
    /\ \E out \in AgentLoop :
        /\ out.kind = "fault"
        /\ OracleCalled(out)
        /\ RunLoopReturn(OracleErrorText(out.text), "ERROR")
    /\ UNCHANGED <<messages, interrupt_requested, current_iteration, current_depth,
                   is_processing, initial_call, user_message, max_iterations, depth, loop_i, subs>>
    /\ UNCHANGED <<runs, budget, events, run_start, dispatched>>

\* (variant: the reply is appended to the transcript before it is returned)
AfterRetryLoopAppendsReply ==
    /\ pc = "after_retry"
    /\ IF response = NoResponse
       THEN RunLoopReturn(<<"Agent failed to return a response">>, "ERROR")
       ELSE IF InterruptAfterRetry
       THEN RunLoopReturn(InterruptedText, "INTERRUPTED")
       ELSE IF IsReply(response)
       THEN RunLoopReturn(response.message, "REPLIED")
       ELSE /\ pc' = "on_tool_start"
            /\ temp_messages' = <<>> /\ retry' = 0
            /\ UNCHANGED <<response, tool_result, result, status>>
    /\ events' = IF pc' = "on_tool_start"
                 THEN Append(events, Event("on_tool_start", current_depth, response.action))
                 ELSE events
    /\ outcomes' = IF pc' = "done" THEN outcomes ELSE <<>>
    /\ messages' = IF pc' = "done" /\ status' = "REPLIED"
                   THEN Append(messages, Message("assistant", response.message, TopLevel))
                   ELSE messages
    /\ UNCHANGED <<interrupt_requested, current_iteration, current_depth,
                   is_processing, initial_call, user_message, max_iterations, depth, loop_i, subs>>
    /\ UNCHANGED <<runs, budget, run_start, dispatched, only_tools>>

\* run_iteration after its retry loop, up to the on_tool_start callback
\* (temp_messages and retry are not read after the loop)
AfterRetryLoop ==
    /\ pc = "after_retry"
    /\ IF response = NoResponse
       THEN RunLoopReturn(<<"Agent failed to return a response">>, "ERROR")
       ELSE IF InterruptAfterRetry
       THEN RunLoopReturn(InterruptedText, "INTERRUPTED")
       ELSE IF IsReply(response)
       THEN RunLoopReturn(response.message, "REPLIED")
       ELSE /\ pc' = "on_tool_start"
            /\ temp_messages' = <<>> /\ retry' = 0
            /\ UNCHANGED <<response, tool_result, result, status>>
    /\ events' = IF pc' = "on_tool_start"
                 THEN Append(events, Event("on_tool_start", current_depth, response.action))
                 ELSE events
    /\ outcomes' = IF pc' = "done" THEN outcomes ELSE <<>>
    /\ UNCHANGED <<messages, interrupt_requested, current_iteration, current_depth,
                   is_processing, initial_call, user_message, max_iterations, depth, loop_i, subs>>
    /\ UNCHANGED <<runs, budget, run_start, dispatched, only_tools>>

-----------------------------------------------------------------------------
(* Dispatch *)

\* AgentRuntime.execute_tool: the Agent action goes to execute_sub_agent, every
\* other action to main.execute_tool
\* (variant: every action goes to main.execute_tool)
RouteAllToTools(tool) == "_execute_tool"
Route(tool) == IF tool.action = "Agent" THEN "execute_sub_agent" ELSE "_execute_tool"

\* (variant: the sub-agent starts from the parent's transcript)
NewSubMessagesShared(parent_messages) == parent_messages

\* sub_messages: list[types.Message] = []
NewSubMessages(parent_messages) == <<>>

\* the locals of a fresh execute_sub_agent activation
\* (id is a history field: the run, the top-level iteration and the depth of
\* the activation, which no two activations share)
NewFrame(tool, parent_depth) ==
    [pc |-> "on_sub_agent_start", tool |-> tool,
     id |-> <<runs, current_iteration, parent_depth + 1>>,
     parent_depth |-> parent_depth,
     sub_messages |-> NewSubMessages(messages), sub_iteration |-> 0,
     temp_sub_messages |-> <<>>, retry |-> 0, response |-> NoResponse,
     tool_result |-> <<>>, ret |-> <<>>,
     \* history field: how the b.SubAgentLoop calls of the retry loop in
     \* progress (or of the one that ended the activation) came out
     outcomes |-> <<>>]

\* (variant: the result is appended before the call)
ToolEntriesResultFirst(tool, text, src) ==
    <<Message("assistant", text, src), Message("assistant", ToolCallStr(tool), src)>>

\* the two transcript entries of one executed tool, call first
ToolEntries(tool, text, src) ==
    <<Message("assistant", ToolCallStr(tool), src), Message("assistant", text, src)>>

\* result = await self.execute_tool(response, depth), called from run_iteration
ExecuteTool ==
    /\ pc = "on_tool_start" /\ subs = NoFrame
    /\ IF Route(response) = "execute_sub_agent"
       THEN /\ subs' = <<NewFrame(response, current_depth)>>
            /\ pc' = "sub"
            /\ events' = Append(events, Event("on_sub_agent_start", current_depth + 1, "-"))
            /\ UNCHANGED <<tool_result, dispatched>>
       ELSE /\ \E text \in ExecuteToolResults(response) :
                /\ tool_result' = text
                /\ dispatched' = Append(dispatched, <<ToolCallStr(response), text>>)
            /\ pc' = "on_tool_result"
            /\ events' = Append(events, Event("on_tool_result", current_depth, "-"))
            /\ UNCHANGED subs
    /\ UNCHANGED <<messages, interrupt_requested, current_iteration, current_depth,
                   is_processing, initial_call, user_message, max_iterations, depth, loop_i, temp_messages,
                   retry, response, result>>
    /\ UNCHANGED <<status, runs, budget, run_start, outcomes, only_tools>>

\* the two appends that end a tool iteration; run_loop goes round its for loop
\* (variant: a dispatch that finds the flag set when it completes is dropped)
AppendToolMessagesUnlessInterrupted ==
    /\ pc = "on_tool_result" /\ subs = NoFrame
    /\ IF interrupt_requested
       THEN /\ RunLoopReturn(InterruptedText, "INTERRUPTED")
            /\ UNCHANGED <<messages, loop_i>>
       ELSE /\ messages' = messages \o ToolEntries(response, tool_result, TopLevel)
            /\ loop_i' = loop_i + 1
            /\ pc' = "loop"
            /\ temp_messages' = <<>> /\ retry' = 0 /\ response' = NoResponse
            /\ tool_result' = <<>>
            /\ UNCHANGED <<result, status>>
    /\ UNCHANGED <<interrupt_requested, current_iteration, current_depth, is_processing,
                   initial_call, user_message, max_iterations, depth, subs>>
    /\ UNCHANGED <<runs, budget, events, run_start, outcomes, dispatched, only_tools>>

AppendToolMessages ==
    /\ pc = "on_tool_result" /\ subs = NoFrame
    /\ messages' = messages \o ToolEntries(response, tool_result, TopLevel)
    /\ loop_i' = loop_i + 1
    /\ pc' = "loop"
    /\ temp_messages' = <<>> /\ retry' = 0 /\ response' = NoResponse /\ tool_result' = <<>>
    /\ UNCHANGED <<interrupt_requested, current_iteration, current_depth, is_processing, initial_call,
                   user_message, max_iterations, depth, result, subs>>
    /\ UNCHANGED hist_vars

-----------------------------------------------------------------------------
(* AgentRuntime.execute_sub_agent: the nested loop of the innermost activation *)

SetTop(f) == [subs EXCEPT ![Len(subs)] = f]

\* every return statement of execute_sub_agent
SubReturns(text) == subs' = SetTop([Top EXCEPT !.pc = "return", !.ret = text])

\* (variant: the nested loop awaits b.AgentLoop)
NestedOracleAgentLoop == AgentLoop

\* the oracle function the nested loop awaits
NestedOracle == SubAgentLoop

top_vars == <<messages, interrupt_requested, current_iteration, current_depth,
              is_processing, initial_call, pc, user_message, max_iterations, depth, loop_i, temp_messages,
              retry, response, tool_result, result>>

\* the two reads of self.state.interrupt_requested in execute_sub_agent
\* (variant: the nested loop does not read the flag at its top)
SubInterruptAtLoopTopSkipped == FALSE
\* if self.state.interrupt_requested, at the top of each nested iteration
SubInterruptAtLoopTop == interrupt_requested
SubInterruptBeforeTool == interrupt_requested

\* (variant: range(50 + 1))
SubLoopHasNextOffByOne(n) == n <= SubAgentIterations

\* for sub_iteration in range(50)
SubLoopHasNext(n) == n < SubAgentIterations

AtSubLoop == subs # NoFrame /\ Top.pc \in {"on_sub_agent_start", "loop"}

\* for sub_iteration in range(50) has run out
SubLoopExhausted ==
    /\ AtSubLoop
    /\ ~SubLoopHasNext(Top.sub_iteration)
    /\ SubReturns(SubMaxIterationsText)
    /\ UNCHANGED top_vars
    /\ UNCHANGED hist_vars

\* (variant: the sub-agent takes the interrupt for itself and clears the flag)
SubIterationInterruptedClears ==
    /\ AtSubLoop
    /\ SubLoopHasNext(Top.sub_iteration)
    /\ SubInterruptAtLoopTop
    /\ SubReturns(SubInterruptedText)
    /\ interrupt_requested' = FALSE
    /\ UNCHANGED <<messages, current_iteration, current_depth, is_processing, initial_call,
                   pc, user_message, max_iterations, depth, loop_i, temp_messages, retry,
                   response, tool_result, result>>
    /\ UNCHANGED hist_vars

SubIterationInterrupted ==
    /\ AtSubLoop
    /\ SubLoopHasNext(Top.sub_iteration)
    /\ SubInterruptAtLoopTop
    /\ SubReturns(SubInterruptedText)
    /\ UNCHANGED top_vars
    /\ UNCHANGED hist_vars

\* (variant: a nested iteration counts as an iteration of the run and sets the
\* depth of the shared state)
SubIterationStartCounts ==
    /\ AtSubLoop
    /\ SubLoopHasNext(Top.sub_iteration)
    /\ ~SubInterruptAtLoopTop
    /\ subs' = SetTop([Top EXCEPT !.pc = "on_iteration"])
    /\ events' = Append(events, Event("on_iteration", Top.parent_depth + 1, "-"))
    /\ current_iteration' = current_iteration + 1
    /\ current_depth' = Top.parent_depth + 1
    /\ UNCHANGED <<messages, interrupt_requested, is_processing, initial_call, pc,
                   user_message, max_iterations, depth, loop_i, temp_messages, retry, response,
                   tool_result, result>>
    /\ UNCHANGED run_hist_vars

SubIterationStart ==
    /\ AtSubLoop
    /\ SubLoopHasNext(Top.sub_iteration)
    /\ ~SubInterruptAtLoopTop
    /\ subs' = SetTop([Top EXCEPT !.pc = "on_iteration"])
    /\ events' = Append(events, Event("on_iteration", Top.parent_depth + 1, "-"))
    /\ UNCHANGED top_vars
    /\ UNCHANGED run_hist_vars

\* temp_sub_messages = sub_messages.copy(), then the first b.SubAgentLoop call
SubCallOracle ==
    /\ subs # NoFrame /\ Top.pc = "on_iteration"
    /\ subs' = SetTop([Top EXCEPT !.pc = "oracle", !.temp_sub_messages = Top.sub_messages,
                                  !.retry = 0, !.response = NoResponse,
                                  !.outcomes = <<>>])
    /\ UNCHANGED top_vars
    /\ UNCHANGED hist_vars

\* One more b.SubAgentLoop call has ended, with out
SubOracleCalled(out) ==
    /\ only_tools' = (only_tools /\ IsToolCall(out))
    /\ UNCHANGED <<status, runs, budget, events, run_start, outcomes, dispatched>>

\* b.SubAgentLoop returns a ReplyToUser or a tool
SubOracleAccepted ==
    /\ subs # NoFrame /\ Top.pc = "oracle"
    /\ \E out \in NestedOracle :
        /\ out.kind = "returned"
        /\ subs' = SetTop([Top EXCEPT !.pc = "after_retry", !.response = out.value,
                                      !.outcomes = Append(@, out)])
        /\ SubOracleCalled(out)
    /\ UNCHANGED top_vars

SubOracleProse ==
    /\ subs # NoFrame /\ Top.pc = "oracle"
    /\ \E out \in NestedOracle :
        /\ out.kind = "malformed"
        /\ IsPlainText(out.raw_output)
        /\ subs' = SetTop([Top EXCEPT !.pc = "after_retry",
                                      !.response = ReplyToUser(out.raw_output),
                                      !.outcomes = Append(@, out)])
        /\ SubOracleCalled(out)
    /\ UNCHANGED top_vars

SubOracleStructured ==
    /\ subs # NoFrame /\ Top.pc = "oracle"
    /\ \E out \in NestedOracle :
        /\ out.kind = "malformed"
        /\ ~IsPlainText(out.raw_output)
        /\ LET temp == Append(Top.temp_sub_messages, RepairMessage(out.raw_output, Top.id))
           IN  subs' = SetTop(
                   IF Top.retry = max_retries - 1
                   THEN [Top EXCEPT !.temp_sub_messages = temp, !.pc = "return",
                                    !.ret = SubRetryFailedText,
                                    !.outcomes = Append(@, out)]
                   ELSE [Top EXCEPT !.temp_sub_messages = temp, !.retry = Top.retry + 1,
                                    !.outcomes = Append(@, out),
                                    !.pc = IF Top.retry + 1 < max_retries
                                           THEN "oracle" ELSE "after_retry"])
        /\ SubOracleCalled(out)
    /\ UNCHANGED top_vars

\* (variant: the exception leaves execute_sub_agent and unwinds run_iteration)
SubOracleFaultUnwinds ==
    /\ subs # NoFrame /\ Top.pc = "oracle"
    /\ \E out \in NestedOracle :
        /\ out.kind = "fault"
        /\ subs' = NoFrame
        /\ RunLoopReturn(OracleErrorText(out.text), "ERROR")
        /\ only_tools' = FALSE
    /\ UNCHANGED <<messages, interrupt_requested, current_iteration, current_depth,
                   is_processing, initial_call, user_message, max_iterations, depth, loop_i>>
    /\ UNCHANGED <<runs, budget, events, run_start, outcomes, dispatched>>

SubOracleFault ==
    /\ subs # NoFrame /\ Top.pc = "oracle"
    /\ \E out \in NestedOracle :
        /\ out.kind = "fault"
        /\ subs' = SetTop([Top EXCEPT !.pc = "return", !.ret = SubErrorText(out.text),
                                      !.outcomes = Append(@, out)])
        /\ SubOracleCalled(out)
    /\ UNCHANGED top_vars

\* execute_sub_agent after its retry loop, up to the on_tool_start callback
\* (temp_sub_messages and retry are not read after the loop)
SubAfterRetryLoop ==
    /\ subs # NoFrame /\ Top.pc = "after_retry"
    /\ IF Top.response = NoResponse
       THEN SubReturns(<<"Sub-agent failed to return a response">>)
       ELSE IF IsReply(Top.response)
       THEN SubReturns(SubCompletedText(Top.tool, Top.response.message))
       ELSE IF SubInterruptBeforeTool
       THEN SubReturns(SubInterruptedText)
       ELSE subs' = SetTop([Top EXCEPT !.pc = "on_tool_start",
                                       !.temp_sub_messages = <<>>, !.retry = 0,
                                       !.outcomes = <<>>])
    /\ events' = IF Top.response # NoResponse /\ IsReply(Top.response)
                 THEN Append(events, Event("on_sub_agent_complete", Top.parent_depth + 1, "-"))
                 ELSE IF Top.response # NoResponse /\ ~SubInterruptBeforeTool
                 THEN Append(events, Event("on_tool_start", Top.parent_depth + 1, Top.response.action))
                 ELSE events
    /\ UNCHANGED top_vars
    /\ UNCHANGED run_hist_vars

\* result = await self.execute_tool(response, parent_depth + 1)
SubExecuteTool ==
    /\ subs # NoFrame /\ Top.pc = "on_tool_start"
    /\ IF Route(Top.response) = "execute_sub_agent"
       THEN /\ Len(subs) < MaxDepth
            /\ subs' = Append(SetTop([Top EXCEPT !.pc = "sub"]),
                              NewFrame(Top.response, Top.parent_depth + 1))
       ELSE \E text \in ExecuteToolResults(Top.response) :
                subs' = SetTop([Top EXCEPT !.pc = "on_tool_result", !.tool_result = text])
    /\ events' = IF Route(Top.response) = "execute_sub_agent"
                 THEN Append(events, Event("on_sub_agent_start", Top.parent_depth + 2, "-"))
                 ELSE Append(events, Event("on_tool_result", Top.parent_depth + 1, "-"))
    /\ UNCHANGED top_vars
    /\ UNCHANGED run_hist_vars

SubAppendToolMessages ==
    /\ subs # NoFrame /\ Top.pc = "on_tool_result"
    /\ subs' = SetTop([Top EXCEPT
                !.sub_messages = Top.sub_messages
                                    \o ToolEntries(Top.response, Top.tool_result, Top.id),
                !.sub_iteration = Top.sub_iteration + 1,
                !.response = NoResponse, !.tool_result = <<>>,
                !.pc = "loop"])
    /\ UNCHANGED top_vars
    /\ UNCHANGED hist_vars

\* (variant: the nested transcript is merged into the parent's on return)
SubAgentReturnMerging ==
    /\ subs # NoFrame /\ Top.pc = "return"
    /\ IF Len(subs) = 1
       THEN /\ subs' = NoFrame
            /\ tool_result' = Top.ret
            /\ dispatched' = Append(dispatched, <<ToolCallStr(response), Top.ret>>)
            /\ pc' = "on_tool_result"
       ELSE /\ subs' = [i \in 1..(Len(subs) - 1) |->
                          IF i = Len(subs) - 1
                          THEN [subs[i] EXCEPT !.pc = "on_tool_result", !.tool_result = Top.ret]
                          ELSE subs[i]]
            /\ UNCHANGED <<tool_result, dispatched, pc>>
    /\ events' = Append(events, Event("on_tool_result", Top.parent_depth, "-"))
    /\ messages' = IF Len(subs) = 1 THEN messages \o Top.sub_messages ELSE messages
    /\ UNCHANGED <<interrupt_requested, current_iteration, current_depth,
                   is_processing, initial_call, user_message, max_iterations, depth, loop_i, temp_messages,
                   retry, response, result>>
    /\ UNCHANGED <<status, runs, budget, run_start, outcomes, only_tools>>

\* execute_sub_agent returns its text to the execute_tool call that started
\* it, in run_iteration or in an enclosing execute_sub_agent
SubAgentReturn ==
    /\ subs # NoFrame /\ Top.pc = "return"
    /\ IF Len(subs) = 1
       THEN /\ subs' = NoFrame
            /\ tool_result' = Top.ret
            /\ dispatched' = Append(dispatched, <<ToolCallStr(response), Top.ret>>)
            /\ pc' = "on_tool_result"
       ELSE /\ subs' = [i \in 1..(Len(subs) - 1) |->
                          IF i = Len(subs) - 1
                          THEN [subs[i] EXCEPT !.pc = "on_tool_result", !.tool_result = Top.ret]
                          ELSE subs[i]]
            /\ UNCHANGED <<tool_result, dispatched, pc>>
    /\ events' = Append(events, Event("on_tool_result", Top.parent_depth, "-"))
    /\ UNCHANGED <<messages, interrupt_requested, current_iteration, current_depth,
                   is_processing, initial_call, user_message, max_iterations, depth, loop_i, temp_messages,
                   retry, response, result>>
    /\ UNCHANGED <<status, runs, budget, run_start, outcomes, only_tools>>

-----------------------------------------------------------------------------

Next ==
    \/ OnInputSubmitted
    \/ ActionResetConversation
    \/ ActionInterruptAgent
    \/ Finish
    \/ RunLoopStart
    \/ RunLoopExhausted
    \/ IterationInterrupted
    \/ IterationStart
    \/ CallOracle
    \/ OracleAccepted
    \/ OracleInvalidReply
    \/ OracleProse
    \/ OracleStructured
    \/ OracleFault
    \/ AfterRetryLoop
    \/ ExecuteTool
    \/ AppendToolMessages
    \/ SubLoopExhausted
    \/ SubIterationInterrupted
    \/ SubIterationStart
    \/ SubCallOracle
    \/ SubOracleAccepted
    \/ SubOracleProse
    \/ SubOracleStructured
    \/ SubOracleFault
    \/ SubAfterRetryLoop
    \/ SubExecuteTool
    \/ SubAppendToolMessages
    \/ SubAgentReturn

Spec == Init /\ [][Next]_vars

\* The steps of the coroutine that runs process_command.  The event loop
\* resumes it whenever it can go on, and every awaited call (the oracle, a
\* tool, a callback) returns or raises; the host's key handlers run only when
\* the user acts.
RunStep ==
    \/ Finish
    \/ RunLoopStart
    \/ RunLoopExhausted
    \/ IterationInterrupted
    \/ IterationStart
    \/ CallOracle
    \/ OracleAccepted
    \/ OracleInvalidReply
    \/ OracleProse
    \/ OracleStructured
    \/ OracleFault
    \/ AfterRetryLoop
    \/ ExecuteTool
    \/ AppendToolMessages
    \/ SubLoopExhausted
    \/ SubIterationInterrupted
    \/ SubIterationStart
    \/ SubCallOracle
    \/ SubOracleAccepted
    \/ SubOracleProse
    \/ SubOracleStructured
    \/ SubOracleFault
    \/ SubAfterRetryLoop
    \/ SubExecuteTool
    \/ SubAppendToolMessages
    \/ SubAgentReturn

FairSpec == Spec /\ WF_vars(RunStep)

\* The TUI started with an initial query
MountNext ==
    \/ Next
    \/ OnMountCallback

MountSpec == MountInit /\ [][MountNext]_vars

\* run_loop called with arguments of the caller's choice (text, cap and depth)
\* on an AgentState whose interrupt flag may already be set; the caller
\* holds is_processing as process_command does, and the host goes on as in
\* Spec once the call has returned.
ApiDepths == 0..1
ApiInit ==
    /\ messages = <<>>
    /\ interrupt_requested \in BOOLEAN
    /\ current_iteration = 0
    /\ current_depth = 0
    /\ is_processing = TRUE
    /\ initial_call = "none"
    /\ pc = "run_loop"
    /\ user_message \in Queries
    /\ max_iterations \in 0..MaxIterations
    /\ depth \in ApiDepths
    /\ loop_i = 0
    /\ temp_messages = <<>>
    /\ retry = 0
    /\ response = NoResponse
    /\ tool_result = <<>>
    /\ result = <<>>
    /\ subs = NoFrame
    /\ status = "RUNNING"
    /\ runs = 1
    /\ events = <<>>
    /\ budget = MaxIterations - max_iterations
    /\ run_start = 0
    /\ outcomes = <<>>
    /\ dispatched = <<>>
    /\ only_tools = TRUE

ApiSpec == ApiInit /\ [][Next]_vars

-----------------------------------------------------------------------------
(* Properties *)

\* a raw output that begins with one of the JSON-ish markers
LooksStructured(raw) == Len(raw) > 0 /\ raw[1] \in {"{", "[", JsonFence}
MalformedStructured(out) == out.kind = "malformed" /\ LooksStructured(out.raw_output)
MalformedProse(out) == out.kind = "malformed" /\ ~LooksStructured(out.raw_output)
WellFormedReply(out) ==
    /\ out.kind = "returned"
    /\ out.value.action = "reply_to_user"
    /\ ~(Len(out.value.message) > 0 /\ out.value.message[1] = "Tool:")

\* the run passed the pre-dispatch checkpoint of its first tool call
PastFirstCheckpoint == DispatchesBegun > 0 \/ pc = "on_tool_start"

\* C1: once the run has appended its user message, the transcript holds,
\* after that message, exactly two entries for each of the loop_i completed
\* tool iterations: the call entry of the k-th executed tool, then its result,
\* with nothing between or around them.
C1_CallResultPairs ==
    (is_processing /\ pc # "run_loop") =>
        /\ Len(messages) = run_start + 1 + 2 * loop_i
        /\ messages[run_start + 1].role = "user"
        /\ Len(dispatched) >= loop_i
        /\ (pc = "loop" => Len(dispatched) = loop_i)
        /\ \A k \in 1..loop_i :
            /\ messages[run_start + 2 * k].message = dispatched[k][1]
            /\ messages[run_start + 2 * k].message[1] = "Tool:"
            /\ messages[run_start + 2 * k + 1].message = dispatched[k][2]

C1_Witness ==
    /\ pc = "loop" /\ loop_i = 2 /\ run_start > 0
    /\ dispatched[1][1] # dispatched[2][1]

\* C2: the retry loop of one iteration never makes a fourth oracle call, and
\* when its three calls all ended in malformed structured output the run has
\* ended in ERROR with the failure message that names 3 attempts.
C2_ThreeMalformedThenError ==
    /\ Len(outcomes) <= 3
    /\ (Len(outcomes) = 3 /\ \A i \in 1..3 : MalformedStructured(outcomes[i])) =>
            /\ pc = "done"
            /\ status = "ERROR"
            /\ result = <<"Agent failed to return valid response after ", "3", " attempts">>

C2_Witness ==
    /\ pc = "done"
    /\ Len(outcomes) = 3
    /\ \A i \in 1..3 : MalformedStructured(outcomes[i])

C3_Case ==
    /\ Len(outcomes) >= 2
    /\ MalformedStructured(outcomes[1])
    /\ MalformedProse(outcomes[2])

\* C3 as stated: a malformed structured output followed by malformed plain
\* prose ends the run REPLIED with the raw prose after two oracle calls.
C3_AsStated ==
    C3_Case =>
        /\ Len(outcomes) = 2
        /\ (pc = "done" => status = "REPLIED" /\ result = outcomes[2].raw_output)

\* C3, amended: the prose is taken as the reply after exactly two oracle
\* calls, with no third attempt; the run then ends REPLIED with the raw text
\* ("Agent completed" when the raw text is empty), unless the interrupt flag
\* is set when the retry loop ends, in which case it ends INTERRUPTED.
C3_ProseFallback ==
    C3_Case =>
        /\ Len(outcomes) = 2
        /\ pc \in {"after_retry", "done"}
        /\ (pc = "done" =>
                IF interrupt_requested
                THEN status = "INTERRUPTED"
                ELSE /\ status = "REPLIED"
                     /\ result = IF outcomes[2].raw_output = <<>>
                                 THEN <<"Agent completed">>
                                 ELSE outcomes[2].raw_output)

C3_Witness ==
    /\ C3_Case
    /\ pc = "done" /\ status = "REPLIED" /\ result = <<"sorry">>

\* C4 as stated: once the interrupt flag is set in a run that has not passed
\* the pre-dispatch checkpoint of its first tool call, no tool call is ever
\* begun and the run ends INTERRUPTED.
C4_AsStated ==
    [][(is_processing /\ interrupt_requested /\ ~PastFirstCheckpoint /\ pc # "done") =>
            /\ ~PastFirstCheckpoint'
            /\ (pc' = "done" => status' = "INTERRUPTED")]_vars

\* C4, amended: in that case no tool call is ever begun, and the run ends
\* INTERRUPTED, or ERROR when the oracle call in flight fails (a fault, or the
\* third rejected output).
C4_InterruptBeforeDispatch ==
    [][(is_processing /\ interrupt_requested /\ ~PastFirstCheckpoint /\ pc # "done") =>
            /\ ~PastFirstCheckpoint'
            /\ (pc' = "done" =>
                    \/ status' = "INTERRUPTED" /\ result' = InterruptedText
                    \/ /\ status' = "ERROR"
                       /\ outcomes' # <<>>
                       /\ \/ outcomes'[Len(outcomes')].kind = "fault"
                          \/ Len(outcomes') = 3)]_vars

C4_Witness ==
    /\ pc = "done" /\ interrupt_requested
    /\ status = "INTERRUPTED"
    /\ dispatched = <<>>
    /\ outcomes # <<>> /\ IsToolCall(outcomes[Len(outcomes)])

\* C5: every entry of the transcript of a sub-agent activation, and so of
\* the copy it hands to the oracle, was made by that same activation: none
\* comes from the parent's transcript or from another spawn.
C5_SubAgentIsolation ==
    \A d \in DOMAIN subs :
        /\ \A i \in DOMAIN subs[d].sub_messages : subs[d].sub_messages[i].src = subs[d].id
        /\ \A i \in DOMAIN subs[d].temp_sub_messages :
                subs[d].temp_sub_messages[i].src = subs[d].id
        /\ subs[d].id # TopLevel
        /\ \A i \in DOMAIN messages : messages[i].src = TopLevel

C5_Witness ==
    /\ Len(subs) = 1
    /\ subs[1].pc = "oracle"
    /\ Len(subs[1].temp_sub_messages) >= 2
    /\ \E i \in DOMAIN messages : messages[i].message = ToolCallStr(AgentTool)

\* C6: no sub-agent ever holds an Agent action as its response, and no
\* sub-agent runs inside a sub-agent: the depth is at most 1.
C6_NoNestedSpawn ==
    /\ Len(subs) <= 1
    /\ \A d \in DOMAIN subs :
        /\ subs[d].response.action # "Agent"
        /\ subs[d].parent_depth + 1 <= 1

C6_Witness ==
    /\ Len(subs) = 1
    /\ subs[1].pc = "oracle"
    /\ subs[1].retry > 0
    /\ subs[1].temp_sub_messages[Len(subs[1].temp_sub_messages)]
            = RepairMessage(<<"{", "action: Agent">>, subs[1].id)

\* C7: a run with cap M >= 1 in which every oracle call returned a tool call
\* and no interrupt was requested ends MAX_ITER with the canned message after
\* exactly M dispatches, its transcript longer by the user message and 2*M
\* entries.
C7_MaxIterations ==
    (pc = "done" /\ max_iterations >= 1 /\ only_tools /\ ~interrupt_requested) =>
        /\ status = "MAX_ITER"
        /\ result = <<"Agent reached maximum iterations without completing the task">>
        /\ Len(dispatched) = max_iterations
        /\ Len(messages) = run_start + 1 + 2 * max_iterations

C7_Witness ==
    /\ pc = "done" /\ max_iterations = 2 /\ only_tools /\ ~interrupt_requested
    /\ status = "MAX_ITER"
    /\ Len(dispatched) = 2

C8_Case ==
    /\ is_processing
    /\ loop_i = 0
    /\ Len(outcomes) >= 1
    /\ WellFormedReply(outcomes[1])

\* C8 as stated: a well-formed Reply on the first oracle call of a run ends
\* the run REPLIED after that one call, counter 1, nothing dispatched and no
\* entry appended after the user message.
C8_AsStated ==
    C8_Case =>
        /\ Len(outcomes) = 1
        /\ current_iteration = 1
        /\ dispatched = <<>>
        /\ Len(messages) = run_start + 1
        /\ (pc = "done" => status = "REPLIED")

\* C8, amended: the same, except that the run ends INTERRUPTED instead of
\* REPLIED when the interrupt flag was set while that oracle call was in
\* flight.
C8_ReplyOnFirstCall ==
    C8_Case =>
        /\ Len(outcomes) = 1
        /\ pc \in {"after_retry", "done"}
        /\ current_iteration = 1
        /\ dispatched = <<>>
        /\ Len(messages) = run_start + 1
        /\ (pc = "done" =>
                status = IF interrupt_requested THEN "INTERRUPTED" ELSE "REPLIED")

C8_Witness ==
    /\ C8_Case
    /\ pc = "done" /\ status = "REPLIED" /\ result = <<"done">>
    /\ run_start > 0

\* C9: from the start of an iteration to its dispatch or its return no step
\* changes the durable transcript, and no step ever puts a repair message
\* into it.
C9_RepairsStayInScratch ==
    [][/\ (pc \in {"on_iteration", "oracle", "after_retry"} => messages' = messages)
       /\ \A i \in DOMAIN messages' :
            ~(Len(messages'[i].message) > 0
                /\ messages'[i].message[1] = "Returned an invalid response: ")]_vars

C9_Witness ==
    /\ pc = "done" /\ status = "ERROR"
    /\ Len(outcomes) = 3
    /\ Len(messages) > run_start + 1

\* C10: a fault of a top-level oracle call is the last oracle call of its
\* run: the run has ended in ERROR with a text that carries the fault's
\* message, whatever attempts were left.
C10_FaultIsFatal ==
    \A i \in DOMAIN outcomes :
        outcomes[i].kind = "fault" =>
            /\ i = Len(outcomes)
            /\ pc = "done"
            /\ status = "ERROR"
            /\ Len(result) > Len(outcomes[i].text)
            /\ SubSeq(result, Len(result) - Len(outcomes[i].text) + 1, Len(result))
                    = outcomes[i].text

C10_Witness ==
    /\ pc = "done" /\ status = "ERROR"
    /\ Len(outcomes) = 2
    /\ outcomes[2].kind = "fault"

\* a returned Reply whose text begins like a serialized tool invocation
InvalidReply(out) ==
    /\ out.kind = "returned"
    /\ out.value.action = "reply_to_user"
    /\ Len(out.value.message) > 0 /\ out.value.message[1] = "Tool:"

\* the text the oracle put out in a rejected attempt
RejectedText(out) == IF out.kind = "returned" THEN out.value.message ELSE out.raw_output

C11_Case ==
    /\ Len(outcomes) = 3
    /\ \E i \in 1..3 : InvalidReply(outcomes[i])
    /\ \A i \in 1..3 : InvalidReply(outcomes[i]) \/ MalformedStructured(outcomes[i])

\* C11: a top-level Reply that begins with "Tool:" is never the reply a run
\* ends with; while the retry loop goes on, the scratch transcript is the
\* durable one followed by one repair message for each rejected output,
\* invalid replies and malformed outputs alike, each quoting the rejected text;
\* and three rejected outputs of either sort end the run in ERROR with the
\* 3-attempts message, with no fourth call.
C11_InvalidReplyRetried ==
    /\ Len(outcomes) <= 3
    /\ (pc = "done" /\ status = "REPLIED") => ~InvalidReply(outcomes[Len(outcomes)])
    /\ (pc = "oracle" /\ subs = <<>>) =>
            /\ Len(temp_messages) = Len(messages) + Len(outcomes)
            /\ retry = Len(outcomes)
            /\ SubSeq(temp_messages, 1, Len(messages)) = messages
            /\ \A i \in DOMAIN outcomes :
                /\ InvalidReply(outcomes[i]) \/ MalformedStructured(outcomes[i])
                /\ temp_messages[Len(messages) + i].role = "assistant"
                /\ temp_messages[Len(messages) + i].message =
                        <<"Returned an invalid response: ">> \o RejectedText(outcomes[i])
                            \o <<".\n Must be one of the types specified.">>
    /\ C11_Case =>
            /\ pc = "done"
            /\ status = "ERROR"
            /\ result = <<"Agent failed to return valid response after ", "3", " attempts">>

C11_Witness ==
    /\ C11_Case
    /\ pc = "done"
    /\ InvalidReply(outcomes[1]) /\ MalformedStructured(outcomes[2]) /\ InvalidReply(outcomes[3])

\* text occurs in whole as a run of consecutive tokens of within
Carries(within, text) ==
    \E i \in 1..(Len(within) - Len(text) + 1) :
        SubSeq(within, i, i + Len(text) - 1) = text

\* an execute_sub_agent activation that is returning its text
Returning(f) == f.pc = "return"

\* C12 as stated: whatever way the nested loop ended, the text a sub-agent
\* returns carries the description of its task.
C12_AsStated ==
    \A d \in DOMAIN subs :
        Returning(subs[d]) => Carries(subs[d].ret, subs[d].tool.description)

\* C12, amended: a sub-agent returns one text; when its nested loop ended with
\* a reply the text is "Sub-agent completed:", the task description and the
\* reply as result; when it ended interrupted, out of iterations or in error
\* the text is a fixed one-line message (with the fault's text for an oracle
\* fault) that does not carry the task description.
C12_SubAgentResultText ==
    \A d \in DOMAIN subs :
        Returning(subs[d]) =>
            IF subs[d].response.action = "reply_to_user"
            THEN subs[d].ret = <<"Sub-agent completed:\nTask: ">> \o subs[d].tool.description
                                    \o <<"\nResult: ">> \o subs[d].response.message
            ELSE /\ \/ subs[d].ret = <<"Sub-agent interrupted by user">>
                    \/ subs[d].ret = <<"Sub-agent reached max iterations">>
                    \/ subs[d].ret = <<"Sub-agent failed to return valid response after ", "3", " attempts">>
                    \/ /\ Len(subs[d].ret) > 1
                       /\ subs[d].ret[1] = "Sub-agent error: "
                 /\ ~Carries(subs[d].ret, subs[d].tool.description)

C12_Witness ==
    /\ Len(subs) = 1
    /\ Returning(subs[1])
    /\ subs[1].ret = <<"Sub-agent completed:\nTask: ", "survey", "\nResult: ", "done">>
    /\ Len(subs[1].sub_messages) = 2

\* the texts execute_sub_agent returns for an oracle fault and for three
\* rejected outputs
SubFailureText(text) ==
    \/ Len(text) > 1 /\ text[1] = "Sub-agent error: "
    \/ text = <<"Sub-agent failed to return valid response after ", "3", " attempts">>

\* C13: no step taken while a sub-agent is active ends the parent's run or
\* changes its status: the parent stays RUNNING inside its dispatch; and when
\* the sub-agent has returned a failure text, the parent's iteration goes on
\* to append the call entry and then that text as the one result entry, and
\* returns to its loop still RUNNING.
C13_SubAgentFaultIsText ==
    [][/\ subs # <<>> =>
            /\ status' = "RUNNING" /\ is_processing'
            /\ pc' \in {"sub", "on_tool_result"}
            /\ messages' = messages
       /\ (pc = "on_tool_result" /\ subs = <<>> /\ SubFailureText(tool_result)) =>
            /\ status' = "RUNNING" /\ is_processing'
            /\ \/ pc' = pc /\ messages' = messages /\ tool_result' = tool_result
               \/ /\ pc' = "loop"
                  /\ Len(messages') = Len(messages) + 2
                  /\ SubSeq(messages', 1, Len(messages)) = messages
                  /\ messages'[Len(messages) + 1].role = "assistant"
                  /\ messages'[Len(messages) + 1].message =
                        <<"Tool:", "Agent", "\n", "  description: ">> \o response.description
                            \o <<"\n", "  prompt: ">> \o response.prompt \o <<"\n">>
                  /\ messages'[Len(messages) + 2].role = "assistant"
                  /\ messages'[Len(messages) + 2].message = tool_result
                  /\ loop_i' = loop_i + 1]_vars

C13_Witness ==
    /\ pc = "loop" /\ loop_i = 2 /\ status = "RUNNING"
    /\ messages[Len(messages) - 2].message = <<"Sub-agent error: ", "connection reset">>
    /\ messages[Len(messages)].message =
            <<"Sub-agent failed to return valid response after ", "3", " attempts">>
    /\ messages[Len(messages) - 1].message[2] = "Agent"

\* C14: every top-level run that has been started ends: run_loop returns,
\* with one of the four terminal outcomes and a non-empty result text, whatever
\* the oracle did at top level and inside sub-agents; and the run is in no
\* other condition than running or so ended.
C14_RunTerminates ==
    /\ (pc = "run_loop") ~>
            (/\ pc = "done"
             /\ status \in {"REPLIED", "INTERRUPTED", "ERROR", "MAX_ITER"}
             /\ result # <<>>)
    /\ [](is_processing =>
            \/ pc = "done" /\ status \in {"REPLIED", "INTERRUPTED", "ERROR", "MAX_ITER"}
            \/ /\ pc \in {"run_loop", "loop", "on_iteration", "oracle", "after_retry",
                          "on_tool_start", "sub", "on_tool_result"}
               /\ status = "RUNNING")

C14_Witness ==
    /\ pc = "done" /\ status = "ERROR"
    /\ Len(dispatched) = 1
    /\ dispatched[1][2][1] = "Sub-agent error: "
    /\ outcomes[Len(outcomes)].kind = "fault"

\* before is an initial part of after, entry for entry
IsPrefix(before, after) ==
    /\ Len(before) <= Len(after)
    /\ SubSeq(after, 1, Len(before)) = before

\* C15: no step taken while a command is being processed removes or changes
\* an entry of the transcript: the transcript after the step is the one
\* before it, possibly with entries appended; so a reset requested during a
\* run changes nothing.
C15_AppendOnly ==
    [][is_processing => IsPrefix(messages, messages')]_vars

C15_Witness ==
    /\ is_processing /\ pc = "loop"
    /\ run_start = 3
    /\ Len(messages) = run_start + 3

\* calls of run_iteration made so far by the run in progress: the rounds of
\* the for loop of run_loop that are over, and the one under way or the one
\* that returned the result
IterationsBegun ==
    loop_i + (IF pc \in {"run_loop", "loop"} \/ (pc = "done" /\ status = "MAX_ITER")
              THEN 0 ELSE 1)

\* C16: throughout a run the iteration counter is the number of top-level
\* iterations begun in that run, in a first run and in a run that follows
\* another on the same AgentState: the counter starts every run at 0.
C16_CounterPerRun ==
    is_processing =>
        /\ current_iteration = IterationsBegun
        /\ (pc = "run_loop" => current_iteration = 0)

C16_Witness ==
    /\ runs = 2 /\ run_start = 3
    /\ pc = "oracle"
    /\ current_iteration = 1

\* C17: from the step that sets the interrupt flag during a run until that
\* run has returned, every step leaves the flag set; and the only steps that
\* change the flag at all are the host's: the interrupt request, which sets
\* it during a run and moves nothing else of the loop, and the end of
\* process_command, which clears it after run_loop has returned.
C17_FlagPersists ==
    [][/\ (is_processing /\ interrupt_requested /\ pc # "done") => interrupt_requested'
       /\ (interrupt_requested' # interrupt_requested) =>
            \/ /\ interrupt_requested'
               /\ is_processing /\ is_processing'
               /\ pc' = pc /\ subs' = subs /\ messages' = messages
               /\ current_iteration' = current_iteration
            \/ /\ ~interrupt_requested'
               /\ pc = "done" /\ pc' = "idle"]_vars

C17_Witness ==
    /\ interrupt_requested
    /\ pc = "on_tool_result"
    /\ tool_result = <<"Sub-agent interrupted by user">>
    /\ loop_i = 1

\* run_loop activations on the shared AgentState that have not returned
ActiveLoops ==
    (IF pc \in {"idle", "done"} THEN 0 ELSE 1)
        + (IF initial_call = "suspended" THEN 1 ELSE 0)

UnknownDispatched(k) == dispatched[k][1][2] = "Teleport"

C20_SubAgentBound ==
    /\ [](\A d \in DOMAIN subs :
            /\ subs[d].sub_iteration <= SubAgentIterations
            /\ Len(subs[d].sub_messages) = 2 * subs[d].sub_iteration
            /\ subs[d].retry < 3
            /\ (subs[d].pc \in {"on_iteration", "oracle", "after_retry", "on_tool_start",
                                "sub", "on_tool_result"}
                    => subs[d].sub_iteration < SubAgentIterations)
            /\ (subs[d].pc = "oracle" =>
                    Len(subs[d].temp_sub_messages) = Len(subs[d].sub_messages) + subs[d].retry)
            /\ (subs[d].pc = "loop" /\ subs[d].sub_iteration = SubAgentIterations
                    => ENABLED SubLoopExhausted)
            /\ (subs[d].pc = "return" /\ subs[d].sub_iteration = SubAgentIterations
                    => subs[d].ret = <<"Sub-agent reached max iterations">>))
    /\ [][subs # <<>> =>
            /\ loop_i' = loop_i
            /\ current_iteration' = current_iteration
            /\ max_iterations' = max_iterations]_vars

C20_Witness ==
    /\ Len(subs) = 1
    /\ subs[1].pc = "return"
    /\ subs[1].ret = <<"Sub-agent reached max iterations">>
    /\ Len(subs[1].sub_messages) = 2 * SubAgentIterations
    /\ max_iterations = 1

\* the loop of run_loop is about to call run_iteration with the flag set
C21_Case == pc = "loop" /\ loop_i < max_iterations /\ interrupt_requested

\* C21 as stated: an iteration that finds the interrupt flag set at its top
\* ends the run INTERRUPTED and leaves the iteration counter as it was.
C21_AsStated ==
    [][C21_Case =>
            /\ pc' = "done" /\ status' = "INTERRUPTED"
            /\ current_iteration' = current_iteration]_vars

\* C21, amended: such an iteration ends the run INTERRUPTED at once, with no
\* iteration-started notification, no oracle call and no transcript entry,
\* but with the iteration counter one higher: the counter is incremented
\* before the flag is read.
C21_InterruptAtLoopTop ==
    [][C21_Case =>
            /\ pc' = "done" /\ status' = "INTERRUPTED"
            /\ result' = <<"Agent execution interrupted by user">>
            /\ current_iteration' = current_iteration + 1
            /\ outcomes' = outcomes
            /\ messages' = messages /\ dispatched' = dispatched]_vars

C21_Witness ==
    /\ pc = "done" /\ status = "INTERRUPTED"
    /\ loop_i = 1 /\ current_iteration = 2
    /\ outcomes = <<>>

\* the retry loop has ended with a well-formed Reply of the oracle, and the
\* interrupt flag is set: it was set while an oracle call of this iteration
\* was in flight
C22_Case ==
    /\ pc = "after_retry"
    /\ outcomes # <<>> /\ WellFormedReply(outcomes[Len(outcomes)])
    /\ response = outcomes[Len(outcomes)].value
    /\ interrupt_requested

\* C22 as stated: the run then ends REPLIED all the same.
C22_AsStated ==
    [][C22_Case => pc' = "done" /\ status' = "REPLIED"]_vars

\* C22, amended: the run then ends INTERRUPTED with the interrupt message and
\* the reply is dropped: the checkpoint after the retry loop applies to
\* replies and tool calls alike.
C22_ReplyDroppedOnInterrupt ==
    [][C22_Case =>
            /\ pc' = "done" /\ status' = "INTERRUPTED"
            /\ result' = <<"Agent execution interrupted by user">>
            /\ messages' = messages]_vars

C22_Witness ==
    /\ pc = "done" /\ status = "INTERRUPTED" /\ interrupt_requested
    /\ loop_i = 1
    /\ Len(outcomes) = 2
    /\ outcomes[2] = [kind |-> "returned", value |-> [action |-> "reply_to_user", message |-> <<"done">>]]

\* the text of the Reply that the last oracle call of the run produced: the
\* message of a returned Reply, the raw output of the plain-prose fallback
ReplyTextOf(out) == IF out.kind = "returned" THEN out.value.message ELSE out.raw_output

\* C23 as stated: a run that ends REPLIED returns exactly the text of the
\* Reply, whatever the text.
C23_AsStated ==
    (pc = "done" /\ status = "REPLIED") =>
        result = ReplyTextOf(outcomes[Len(outcomes)])

\* C23, amended: a run that ends REPLIED returns exactly the text of the
\* Reply when that text is not empty, and "Agent completed" when it is.
C23_ReplyText ==
    (pc = "done" /\ status = "REPLIED") =>
        /\ outcomes # <<>>
        /\ outcomes[Len(outcomes)].kind \in {"returned", "malformed"}
        /\ result = IF ReplyTextOf(outcomes[Len(outcomes)]) = <<>>
                    THEN <<"Agent completed">>
                    ELSE ReplyTextOf(outcomes[Len(outcomes)])

C23_Witness ==
    /\ pc = "done" /\ status = "REPLIED"
    /\ result = <<"Agent completed">>
    /\ outcomes[Len(outcomes)] = [kind |-> "returned", value |-> [action |-> "reply_to_user", message |-> <<>>]]

\* C24 as stated: no run ends REPLIED with a result that begins like a
\* serialized tool invocation, whether the reply was returned by the oracle
\* or built from the raw output of a malformed one.
C24_AsStated ==
    (pc = "done" /\ status = "REPLIED") =>
        ~(Len(result) > 0 /\ result[1] = "Tool:")

-----------------------------------------------------------------------------
(* The retry rule of the two loops *)

Decision(d, r, e) == [decision |-> d, response |-> r, text |-> e]

\* What the retry loop of run_iteration decides once the oracle calls of one
\* iteration have come out as outs, from call i on: accept a response, end
\* with the error of a fault, give up after max_retries rejected outputs, or
\* call the oracle again.
RECURSIVE RetryLoopDecisionFrom(_, _)
RetryLoopDecisionFrom(outs, i) ==
    IF i > Len(outs) THEN Decision("call again", NoResponse, <<>>)
    ELSE LET out == outs[i] IN
         IF out.kind = "fault" THEN Decision("error", NoResponse, out.text)
         ELSE IF out.kind = "returned"
                    /\ ~(IsReply(out.value) /\ LooksLikeToolCall(out.value.message))
         THEN Decision("accept", out.value, <<>>)
         ELSE IF out.kind = "malformed" /\ IsPlainText(out.raw_output)
         THEN Decision("accept", ReplyToUser(out.raw_output), <<>>)
         ELSE IF i = max_retries THEN Decision("give up", NoResponse, <<>>)
         ELSE RetryLoopDecisionFrom(outs, i + 1)

RetryLoopDecision(outs) == RetryLoopDecisionFrom(outs, 1)

\* the decision a nested activation has reached in its retry loop
SubDecided(f) ==
    \/ f.pc \in {"oracle", "after_retry"}
    \/ /\ f.pc = "return" /\ f.outcomes # <<>>
       /\ \/ f.ret = SubRetryFailedText
          \/ f.outcomes[Len(f.outcomes)].kind = "fault"

SubDecision(f) ==
    IF f.pc = "oracle" THEN Decision("call again", NoResponse, <<>>)
    ELSE IF f.pc = "after_retry" THEN Decision("accept", f.response, <<>>)
    ELSE IF f.ret = SubRetryFailedText THEN Decision("give up", NoResponse, <<>>)
    ELSE Decision("error", NoResponse, f.outcomes[Len(f.outcomes)].text)

\* the top-level retry loop decides as RetryLoopDecision says
TopLevelDecides ==
    /\ (pc = "oracle" /\ subs = <<>>) =>
            RetryLoopDecision(outcomes) = Decision("call again", NoResponse, <<>>)
    /\ pc = "after_retry" =>
            RetryLoopDecision(outcomes) = Decision("accept", response, <<>>)
    /\ (pc = "done" /\ status = "ERROR" /\ result = RetryFailedText) =>
            RetryLoopDecision(outcomes) = Decision("give up", NoResponse, <<>>)

\* C25 as stated: given the same oracle outputs in the same order, every
\* nested activation reaches the decision the top-level retry loop reaches;
\* a returned Reply that looks like a tool invocation is rejected and retried
\* in the nested loop too.
C25_AsStated ==
    \A d \in DOMAIN subs :
        SubDecided(subs[d]) => SubDecision(subs[d]) = RetryLoopDecision(subs[d].outcomes)

\* a nested activation stands at one of its two checkpoints
AtSubCheckpoint(f) ==
    \/ f.pc \in {"on_sub_agent_start", "loop"} /\ SubLoopHasNext(f.sub_iteration)
    \/ f.pc = "after_retry" /\ f.response # NoResponse /\ ~IsReply(f.response)

\* C26: while the interrupt flag is set no iteration is started at any level
\* (the top-level loop does not pass its loop-top check, no nested activation
\* passes its own), so every oracle call still made belongs to the iteration
\* in flight; a nested activation that reaches a checkpoint returns the
\* interrupted text there; the top-level loop leaves its loop-top only by
\* ending the run; and a run in which the flag is set terminates.
C26_InterruptHalts ==
    /\ [][interrupt_requested =>
            /\ ~(pc = "loop" /\ pc' = "on_iteration")
            /\ (pc = "loop" /\ subs = NoFrame /\ pc' # pc) =>
                    (pc' = "done" /\ status' \in {"INTERRUPTED", "MAX_ITER"})
            /\ \A d \in DOMAIN subs :
                    (d \in DOMAIN subs' /\ subs'[d].pc = "on_iteration") =>
                        subs[d].pc = "on_iteration"
            /\ (subs # NoFrame /\ AtSubCheckpoint(Top) /\ subs' # subs) =>
                    subs' = SetTop([Top EXCEPT !.pc = "return", !.ret = SubInterruptedText])
       ]_vars
    /\ (interrupt_requested /\ pc \notin {"idle", "done"}) ~> (pc = "done")

\* a run in which a sub-agent returned at a checkpoint and the top-level loop
\* then stopped at its loop-top
C26_Witness ==
    /\ pc = "done" /\ status = "INTERRUPTED"
    /\ \E i \in DOMAIN dispatched : dispatched[i][2] = SubInterruptedText

IsCallEntry(m) == m.role = "assistant" /\ Len(m.message) > 0 /\ m.message[1] = "Tool:"

\* every call entry of a transcript is directly followed by a result entry
CallsHaveResults(msgs) ==
    \A i \in DOMAIN msgs :
        IsCallEntry(msgs[i]) =>
            /\ i < Len(msgs)
            /\ msgs[i + 1].role = "assistant"
            /\ ~IsCallEntry(msgs[i + 1]) /\ ~IsRepair(msgs[i + 1])

\* the program points between the pre-dispatch checkpoint and the two appends
DispatchPoints == {"on_tool_start", "sub", "on_tool_result"}

C28_RoutedToOneCollaborator ==
    [][/\ (pc = "on_tool_start" /\ subs = NoFrame /\ pc' # pc) =>
            IF response.action = "Agent"
            THEN /\ pc' = "sub"
                 /\ Len(subs') = 1 /\ subs'[1].tool = response
                 /\ subs'[1].pc = "on_sub_agent_start"
                 /\ tool_result' = tool_result /\ dispatched' = dispatched
            ELSE /\ pc' = "on_tool_result"
                 /\ subs' = NoFrame
                 /\ tool_result' \in ExecuteToolResults(response)
                 /\ dispatched' = Append(dispatched, <<ToolCallStr(response), tool_result'>>)
       /\ (subs # NoFrame /\ Top.pc = "on_tool_start" /\ subs' # subs) =>
            IF Top.response.action = "Agent"
            THEN /\ Len(subs') = Len(subs) + 1
                 /\ subs'[Len(subs')].tool = Top.response
                 /\ subs'[Len(subs)].tool_result = Top.tool_result
            ELSE /\ Len(subs') = Len(subs)
                 /\ subs'[Len(subs)].pc = "on_tool_result"
                 /\ subs'[Len(subs)].tool_result \in ExecuteToolResults(Top.response)
       /\ (Len(subs') > Len(subs)) =>
            /\ Len(subs') = Len(subs) + 1
            /\ IF subs = NoFrame THEN pc = "on_tool_start" /\ response.action = "Agent"
                                 ELSE Top.pc = "on_tool_start" /\ Top.response.action = "Agent"
      ]_vars

\* one run has routed a Read action to main.execute_tool and then an Agent
\* action to execute_sub_agent, whose activation has routed a Read of its own
C28_Witness ==
    /\ pc = "sub" /\ loop_i = 1
    /\ dispatched[1][1] = ToolCallStr(ReadTool)
    /\ response = AgentTool
    /\ Len(subs) = 1 /\ subs[1].pc = "on_tool_result" /\ subs[1].response = ReadTool

\* the iteration and tool notifications given depth d, in the order emitted
LoopEventsAt(d) ==
    SelectSeq(events, LAMBDA e : e.depth = d /\ e.name \in
                                    {"on_iteration", "on_tool_start", "on_tool_result"})

\* C29: among the notifications of one depth every on_tool_start is directly
\* followed by an on_tool_result (it is the last one only while its dispatch
\* is in flight) and every on_tool_result directly follows an on_tool_start,
\* so exactly one on_tool_result separates an on_tool_start from the next
\* on_iteration of that depth; and every notification of a sub-agent lies
\* after the on_tool_start of an Agent action one level up, with no
\* notification of that upper level in between: the sub-agent's notifications
\* open with on_sub_agent_start right after that on_tool_start, and its
\* on_sub_agent_complete is directly followed by the parent's on_tool_result.
C29_NotificationOrder ==
    /\ \A d \in 0..MaxDepth :
        LET log == LoopEventsAt(d) IN
        \A i \in DOMAIN log :
            /\ log[i].name = "on_tool_start" =>
                    IF i < Len(log) THEN log[i + 1].name = "on_tool_result"
                    ELSE /\ pc \in DispatchPoints
                         /\ d > 0 => (Len(subs) >= d /\ subs[d].pc \in DispatchPoints)
            /\ log[i].name = "on_tool_result" =>
                    (i > 1 /\ log[i - 1].name = "on_tool_start")
    /\ \A k \in DOMAIN events :
        /\ events[k].depth > 0 =>
            \E i \in 1..(k - 1) :
                /\ events[i] = Event("on_tool_start", events[k].depth - 1, "Agent")
                /\ events[i + 1] = Event("on_sub_agent_start", events[k].depth, "-")
                /\ \A j \in (i + 1)..k : events[j].depth >= events[k].depth
        /\ events[k].name = "on_sub_agent_start" => k > 1 /\ events[k - 1].kind = "Agent"
        /\ (events[k].name = "on_sub_agent_complete" /\ k < Len(events)) =>
                events[k + 1] = Event("on_tool_result", events[k].depth - 1, "-")

\* a run in which a sub-agent ran a tool of its own, replied, and the parent
\* went on to its next iteration
C29_Witness ==
    /\ Len(events) = 10
    /\ events[2] = Event("on_tool_start", 0, "Agent")
    /\ events[5] = Event("on_tool_start", 1, "Read")
    /\ events[8].name = "on_sub_agent_complete"
    /\ events[10] = Event("on_iteration", 0, "-")

\* C30: from the dispatch of an Agent action to the return of its sub-agent
\* the parent transcript does not change, whatever the nested loop appends to
\* its own; the step that ends the dispatch adds the call entry and the
\* returned text as one result entry, two entries in all; and every entry of
\* the parent transcript was written by the top-level loop, none by a nested
\* activation.
C30_SubAgentAddsTwoEntries ==
    /\ [](/\ \A i \in DOMAIN messages : messages[i].src = TopLevel
          /\ (pc \in DispatchPoints /\ response.action = "Agent") =>
                Len(messages) = run_start + 1 + 2 * loop_i)
    /\ [][/\ (subs # NoFrame \/ subs' # NoFrame) => messages' = messages
          /\ (pc = "on_tool_result" /\ response.action = "Agent" /\ pc' # pc) =>
                /\ messages' = messages \o
                        <<Message("assistant", ToolCallStr(response), TopLevel),
                          Message("assistant", tool_result, TopLevel)>>
                /\ tool_result = dispatched[Len(dispatched)][2]
                /\ loop_i' = loop_i + 1
         ]_vars

\* two sub-agent dispatches of one run, the first ended by the nested
\* iteration limit after two nested tool iterations, the second by a reply:
\* four entries after the user message
C30_Witness ==
    /\ pc = "loop" /\ loop_i = 2
    /\ dispatched[1] = <<ToolCallStr(AgentTool), SubMaxIterationsText>>
    /\ dispatched[2][1] = ToolCallStr(AgentTool)
    /\ dispatched[2][2][1] = "Sub-agent completed:\nTask: "
    /\ Len(messages) = run_start + 5

\* the step enters run_iteration: the for loop of run_loop has an iteration left
EntersRunIteration == pc = "loop" /\ subs = NoFrame /\ LoopHasNext /\ pc' # pc

\* C31: from step to step of one run the iteration counter stays or grows by
\* one, it grows exactly in the steps that enter run_iteration (the entry that
\* finds the interrupt flag set included), and no step taken while a
\* sub-agent activation exists, its start and its return included, changes
\* the counter or the depth of the shared state.
C31_CounterSteps ==
    [][(is_processing /\ is_processing' /\ runs' = runs) =>
            /\ current_iteration' \in {current_iteration, current_iteration + 1}
            /\ (current_iteration' = current_iteration + 1) <=> EntersRunIteration
            /\ (subs # NoFrame \/ subs' # NoFrame) =>
                    /\ current_iteration' = current_iteration
                    /\ current_depth' = current_depth
      ]_vars

\* a sub-agent of the second top-level iteration is in its second nested
\* iteration and the counter still reads 2
C31_Witness ==
    /\ Len(subs) = 1 /\ subs[1].sub_iteration = 1 /\ subs[1].pc = "oracle"
    /\ loop_i = 1 /\ current_iteration = 2 /\ current_depth = 0

\* an entry that run_loop or run_iteration appends: the user message of a
\* run, a call entry, or the result entry that follows a call entry
LoopEntry(msgs, i) ==
    \/ msgs[i].role = "user"
    \/ IsCallEntry(msgs[i])
    \/ i > 1 /\ IsCallEntry(msgs[i - 1])

\* C32: the step that ends a run REPLIED returns the reply text and leaves
\* the transcript as it was, and so do the steps from there to the next
\* command; the transcript therefore holds nothing but user messages and
\* call/result pairs, and the copy a later iteration or run hands to the
\* oracle is that transcript, to which only repair messages are added.
C32_ReplyNotInTranscript ==
    /\ [](/\ \A i \in DOMAIN messages : LoopEntry(messages, i)
          /\ (pc = "done" /\ status = "REPLIED") =>
                /\ Len(messages) = run_start + 1 + 2 * loop_i
                /\ messages[run_start + 1] = Message("user", user_message, TopLevel)
          /\ (pc = "oracle" /\ subs = NoFrame) =>
                /\ SubSeq(temp_messages, 1, Len(messages)) = messages
                /\ \A i \in (Len(messages) + 1)..Len(temp_messages) :
                        IsRepair(temp_messages[i]))
    /\ [][/\ (pc # "done" /\ pc' = "done" /\ status' = "REPLIED") =>
                /\ messages' = messages
                /\ result' \in {response.message, AgentCompletedText}
          /\ pc = "done" => messages' = messages
         ]_vars

\* a second run on the same AgentState has ended REPLIED after one tool
\* iteration; the transcript ends with that iteration's result entry
C32_Witness ==
    /\ pc = "done" /\ status = "REPLIED" /\ result = <<"done">>
    /\ runs = 2 /\ run_start >= 1 /\ loop_i = 1
    /\ messages[Len(messages)].message = dispatched[1][2]

\* the user entries a run has appended so far
UserEntriesOfRun ==
    {i \in (run_start + 1)..Len(messages) : messages[i].role = "user"}

\* C33: the first step of run_loop appends the user message with the given
\* text when the depth is 0 and appends nothing when it is not, before any
\* iteration has begun; from then to the end of the run the transcript holds
\* exactly one user entry of the run at depth 0, the entry right after the
\* earlier transcript, and none at a greater depth, whatever the text, the
\* cap and the state of the interrupt flag.
C33_OneUserEntry ==
    /\ [](/\ pc = "run_loop" =>
                /\ UserEntriesOfRun = {}
                /\ events = <<>> /\ outcomes = <<>> /\ loop_i = 0
          /\ (is_processing /\ pc # "run_loop") =>
                IF depth = 0
                THEN /\ UserEntriesOfRun = {run_start + 1}
                     /\ messages[run_start + 1] = Message("user", user_message, TopLevel)
                ELSE UserEntriesOfRun = {})
    /\ [][(pc = "run_loop" /\ pc' # pc) =>
            /\ pc' = "loop"
            /\ messages' = IF depth = 0
                           THEN Append(messages, Message("user", user_message, TopLevel))
                           ELSE messages
         ]_vars

\* a run at depth 0 with the empty text found the flag set at its first
\* loop-top and ended INTERRUPTED with the user entry as its only entry
C33_Witness ==
    /\ pc = "done" /\ status = "INTERRUPTED" /\ loop_i = 0 /\ events = <<>>
    /\ depth = 0 /\ user_message = <<>>
    /\ messages = <<Message("user", <<>>, TopLevel)>>

\* C34: while no command is being processed the interrupt flag is false; an
\* interrupt request made then changes nothing; the flag is false when
\* process_command calls run_loop and when the first loop-top check of the
\* run is made, so that check never ends a run; and the step that ends
\* process_command clears the flag together with is_processing, whatever the
\* outcome of the run.
C34_FlagFalseWhenIdle ==
    /\ [](/\ ~is_processing => ~interrupt_requested
          /\ (pc = "run_loop" \/ (pc = "loop" /\ loop_i = 0)) => ~interrupt_requested
          /\ (pc = "done" /\ status = "INTERRUPTED") => (loop_i > 0 \/ outcomes # <<>>))
    /\ [][/\ ~is_processing => ~interrupt_requested'
          /\ (pc = "done" /\ pc' # pc) =>
                (pc' = "idle" /\ ~is_processing' /\ ~interrupt_requested')
         ]_vars

\* the host is idle after a run that an interrupt request ended, with the
\* flag cleared, and a second command can still be submitted
C34_Witness ==
    /\ pc = "idle" /\ ~is_processing /\ ~interrupt_requested
    /\ status = "INTERRUPTED" /\ runs = 1

\* C35: the first oracle call of every iteration is made with a scratch
\* transcript equal to the durable one, which holds no repair message, and
\* with the attempt counter at 0; during the retry loop the scratch is the
\* durable transcript followed by one repair message for each rejected output
\* of this iteration and of no other; an iteration makes at most max_retries
\* calls and is begun only while fewer than max_iterations are complete, so
\* the calls of a run with cap M number at most max_retries * M.
C35_BudgetPerIteration ==
    /\ [](is_processing =>
            /\ Len(outcomes) <= max_retries
            /\ outcomes # <<>> => loop_i < max_iterations
            /\ max_retries * loop_i + Len(outcomes) <= max_retries * max_iterations
            /\ (pc = "oracle" /\ subs = NoFrame) =>
                    /\ retry = Len(outcomes) /\ retry < max_retries
                    /\ \A k \in 1..retry :
                        temp_messages[Len(messages) + k]
                            = RepairMessage(RejectedText(outcomes[k]), TopLevel))
    /\ [][(pc = "on_iteration" /\ pc' # pc) =>
            /\ pc' = "oracle"
            /\ temp_messages' = messages
            /\ retry' = 0 /\ outcomes' = <<>>
            /\ \A i \in DOMAIN temp_messages' : ~IsRepair(temp_messages'[i])
         ]_vars

\* the second iteration of a run is at its third attempt: with the first
\* iteration complete, the scratch holds the two repairs of this one only
C35_Witness ==
    /\ pc = "oracle" /\ subs = NoFrame
    /\ loop_i = 1 /\ max_iterations = 2 /\ retry = 2
    /\ Len(temp_messages) = Len(messages) + 2

=============================================================================
